---- MODULE Spec2Model ----
(***************************************************************************)
(* A model of entwine's source analysis (src/entwine/util/info.cpp) and of *)
(* the Subset / Subset::Span value types (src/unnamed/part_001).           *)
(*                                                                         *)
(* The module holds several specifications over one set of variables:      *)
(*   Spec          analyze(config): pool workers running getInfo / fetch   *)
(*   FairSpec      the same, with the scheduling fairness of OS threads    *)
(*   SpecPipeline  createInfoPipeline as a pure function of its inputs     *)
(*   SpecSerialize serialize(sources, ep, threads)                         *)
(*   SpecSubset    Subset::postfix applied to chunk keys                   *)
(*   SpecSpan      sequences of Subset::Span::merge                        *)
(*   SpecRun       the point loop of runNonStreaming                       *)
(* A specification leaves the variables of the other parts unchanged.      *)
(***************************************************************************)
EXTENDS Integers, Sequences, FiniteSets, TLC

VARIABLES
    \* ---- Subset::Span ----
    spA,        \* the span merge() is called on: [begin, end]
    spB,        \* the argument of the last merge()
    spPrevA,    \* spA as it was when the last merge() was called
    spThrew,    \* the last merge() threw "Cannot merge these spans"
    spMerges,   \* number of merge() calls so far
    spCovered,  \* the union of the ranges of the spans merged so far
    spOverlap,  \* some position was contributed by two of the merged spans
    spWell,     \* every span involved so far had begin <= end
    \* ---- runNonStreaming ----
    rViews,     \* pm.views(): the size of each view
    rCap,       \* table.capacity()
    rPc,        \* position in the function
    rV,         \* index of the current view (1-based)
    rI,         \* loop counter i inside the current view
    rCurrent,   \* the local `current`
    rPrIdx,     \* the point id the PointRef `pr` refers to
    rTable,     \* table slots: slot -> number of the point it holds (0: none)
    rWritten,   \* number of points written so far (points are numbered 1..)
    rClears,    \* the arguments n of the table.clear(n) calls, in order
    rFlushed,   \* for each clear(n): the contents of slots 0..n-1 at the call
    rAcc,       \* points written since the last clear
    rSince,     \* rAcc sampled at each clear
    rLastSlot,  \* slot of the last write (-1: none)
    rLastCur,   \* value of `current` at the last write (-1: none)
    \* ---- analyze(config) / createInfoPipeline ----
    cPipeline,  \* the config's "pipeline" member (NoMember: the config has none)
    cReproj,    \* the config's reprojection, as optional<Reprojection>
    aPc,        \* position in analyze(config)
    aResult,    \* what extractInfoPipelineFromConfig returned or threw
    \* ---- Subset ----
    sSubsets,   \* two Subset objects of one build: slot -> [m_id, m_of]
    sPostfix,   \* slot -> the result of postfix(), <<>> before the call
    \* ---- serialize ----
    zSources,   \* the source list: the path of each source
    zThreads,   \* the pool's thread count
    zUnique,    \* basenamesUnique
    zPc,        \* position of the calling thread in serialize()
    zI,         \* the loop counter i
    zQueue,     \* tasks added to the pool and not yet taken: [src, key]
    zWorker,    \* worker -> the task whose put is in progress, or NoTask
    zKey,       \* source -> the key of its task, <<>> before it is added
    zIssued,    \* source -> number of puts issued for it
    zCompleted, \* source -> number of puts completed for it
    zEndpoint,  \* the endpoint: a set of [key, content]
    \* ---- analyze(pipelineTemplate, inputs, a, threads) ----
    nInputs,    \* the resolved inputs: what each path holds
    nTemplate,  \* pipelineTemplate: an array of stages
    nThreads,   \* the pool's thread count
    nPc,        \* position of the calling thread in analyze()
    nI,         \* number of sources the loop has gone through
    nSources,   \* the source list: [path, info] per source
    nQueue,     \* tasks added to the pool and not yet taken
    nWorker,    \* worker -> [src, pc, pipeline]: its task and position in it
    nLock,      \* the executor lock: the worker holding it, 0 when free
    nOutcome,   \* source -> "none", "ok" (analysis returned) or "failed" (it threw)
    nEscaped    \* an exception left a task's lambda

spanVars == <<spA, spB, spPrevA, spThrew, spMerges, spCovered, spOverlap, spWell>>
runVars == <<rViews, rCap, rPc, rV, rI, rCurrent, rPrIdx, rTable, rWritten,
             rClears, rFlushed, rAcc, rSince, rLastSlot, rLastCur>>
cfgVars == <<cPipeline, cReproj, aPc, aResult>>
subVars == <<sSubsets, sPostfix>>
serVars == <<zSources, zThreads, zUnique, zPc, zI, zQueue, zWorker, zKey,
             zIssued, zCompleted, zEndpoint>>
anVars == <<nInputs, nTemplate, nThreads, nPc, nI, nSources, nQueue, nWorker,
            nLock, nOutcome, nEscaped>>
vars == <<spanVars, runVars, cfgVars, subVars, serVars, anVars>>
\* The variables of the other parts.
NotSpanVars == <<runVars, cfgVars, subVars, serVars, anVars>>
NotRunVars == <<spanVars, cfgVars, subVars, serVars, anVars>>
NotCfgVars == <<spanVars, runVars, subVars, serVars, anVars>>
NotSubVars == <<spanVars, runVars, cfgVars, serVars, anVars>>
NotSerVars == <<spanVars, runVars, cfgVars, subVars, anVars>>
NotAnVars == <<spanVars, runVars, cfgVars, subVars, serVars>>

(***************************************************************************)
(* Helpers                                                                 *)
(***************************************************************************)
RECURSIVE SumSeq(_)
SumSeq(s) == IF s = <<>> THEN 0 ELSE Head(s) + SumSeq(Tail(s))

\* All sequences over S of length at most n.
SeqsUpTo(S, n) == UNION {[1..k -> S] : k \in 0..n}

\* Strings whose characters matter are sequences of one-character strings.
DigitChars == <<"0", "1", "2", "3", "4", "5", "6", "7", "8", "9">>
IsDigit(c) == \E d \in 1..10 : DigitChars[d] = c
DigitValue(c) == (CHOOSE d \in 1..10 : DigitChars[d] = c) - 1

\* std::to_string of an unsigned integer: its decimal digits.
RECURSIVE to_string(_)
to_string(n) ==
    IF n < 10 THEN <<DigitChars[n + 1]>>
    ELSE to_string(n \div 10) \o <<DigitChars[(n % 10) + 1]>>

\* The number a string of decimal digits denotes; -1 when it is empty or
\* holds another character.
RECURSIVE DigitsValue(_)
DigitsValue(str) ==
    IF str = <<>> THEN 0
    ELSE DigitsValue(SubSeq(str, 1, Len(str) - 1)) * 10
            + DigitValue(str[Len(str)])
ParseDecimal(str) ==
    IF str = <<>> \/ \E i \in 1..Len(str) : ~IsDigit(str[i]) THEN -1
    ELSE DigitsValue(str)

RECURSIVE Pow(_, _)
Pow(b, e) == IF e = 0 THEN 1 ELSE b * Pow(b, e - 1)

(***************************************************************************)
(* Subset::Span                                                            *)
(***************************************************************************)
MaxPos == 3
MaxMerges == 3

Span(b, e) == [begin |-> b, end |-> e]
Spans == {Span(b, e) : b \in 0..MaxPos, e \in 0..MaxPos}
\* The positions a span denotes: [begin, end).
SpanRange(s) == {p \in 0..MaxPos : s.begin <= p /\ p < s.end}

\* merge() without its precondition check.
SpanMergeUnchecked(a, other) ==
    [threw |-> FALSE, span |-> [a EXCEPT !.end = other.end]]

\* Span::merge: the outcome (threw?) and the value of *this afterwards.
SpanMerge(a, other) ==
    IF a.end # other.begin
    THEN [threw |-> TRUE, span |-> a]
    ELSE [threw |-> FALSE, span |-> [a EXCEPT !.end = other.end]]

SpanIdle ==
    /\ spA = Span(0, 0) /\ spB = Span(0, 0) /\ spPrevA = Span(0, 0)
    /\ spThrew = FALSE /\ spMerges = 0 /\ spCovered = {}
    /\ spOverlap = FALSE /\ spWell = TRUE

SpanInit ==
    /\ spA \in Spans
    /\ spB = Span(0, 0)
    /\ spPrevA = spA
    /\ spThrew = FALSE
    /\ spMerges = 0
    /\ spCovered = SpanRange(spA)
    /\ spOverlap = FALSE
    /\ spWell = (spA.begin <= spA.end)

Merge(other) ==
    /\ spMerges < MaxMerges
    /\ LET r == SpanMerge(spA, other) IN
        /\ spA' = r.span
        /\ spThrew' = r.threw
        /\ spCovered' = IF r.threw THEN spCovered
                        ELSE spCovered \cup SpanRange(other)
        /\ spOverlap' = IF r.threw THEN spOverlap
                        ELSE spOverlap \/ (spCovered \cap SpanRange(other) # {})
        /\ spWell' = IF r.threw THEN spWell
                     ELSE spWell /\ (other.begin <= other.end)
    /\ spB' = other
    /\ spPrevA' = spA
    /\ spMerges' = spMerges + 1
    /\ UNCHANGED NotSpanVars

SpanNext ==
    \E other \in Spans : Merge(other)

(***************************************************************************)
(* runNonStreaming: handing the views' points to the table                 *)
(***************************************************************************)
MaxViews == 2
MaxViewSize == 3
MaxCap == 3

\* The clear issued after the loop: `if (current) table.clear(current)`.
FinalClearAlways(current) == <<current>>

FinalClear(current) == IF current # 0 THEN <<current>> ELSE <<>>

\* The contents of slots 0..n-1.
Batch(table, n) == [k \in 1..n |-> table[k - 1]]

RunIdle ==
    /\ rViews = <<>> /\ rCap = 1 /\ rPc = "done" /\ rV = 1 /\ rI = 0
    /\ rCurrent = 0 /\ rPrIdx = 0 /\ rTable = [s \in 0..0 |-> 0]
    /\ rWritten = 0 /\ rClears = <<>> /\ rFlushed = <<>> /\ rAcc = 0
    /\ rSince = <<>>
    /\ rLastSlot = -1 /\ rLastCur = -1

\* The state after pm.execute(), `pdal::PointRef pr(table, 0)` and
\* `uint64_t current(0)`.
RunInit ==
    /\ rViews \in SeqsUpTo(0..MaxViewSize, MaxViews)
    /\ rCap \in 1..MaxCap
    /\ rPc = "view"
    /\ rV = 1
    /\ rI = 0
    /\ rCurrent = 0
    /\ rPrIdx = 0
    /\ rTable = [s \in 0..(rCap - 1) |-> 0]
    /\ rWritten = 0
    /\ rClears = <<>>
    /\ rFlushed = <<>>
    /\ rAcc = 0
    /\ rSince = <<>>
    /\ rLastSlot = -1
    /\ rLastCur = -1

\* for (auto& view : pm.views()) { setSpatialReference; pr.setPointId(current);
RunViewBegin ==
    /\ rPc = "view"
    /\ rV <= Len(rViews)
    /\ rPrIdx' = rCurrent
    /\ rI' = 0
    /\ rPc' = "point"
    /\ UNCHANGED <<rViews, rCap, rV, rCurrent, rTable, rWritten, rClears,
                   rFlushed, rAcc, rSince, rLastSlot, rLastCur>>
    /\ UNCHANGED NotRunVars

\* One iteration of the inner loop: setPackedData at the PointRef's point id,
\* then `if (++current == table.capacity()) { table.clear(capacity); current = 0; }`.
RunPoint ==
    /\ rPc = "point"
    /\ rI < rViews[rV]
    /\ LET p == rWritten + 1
           t == [rTable EXCEPT ![rPrIdx] = p]
           c == rCurrent + 1
       IN  /\ rWritten' = p
           /\ rLastSlot' = rPrIdx
           /\ rLastCur' = rCurrent
           /\ IF c = rCap
              THEN /\ rClears' = Append(rClears, rCap)
                   /\ rFlushed' = Append(rFlushed, Batch(t, rCap))
                   /\ rSince' = Append(rSince, rAcc + 1)
                   /\ rAcc' = 0
                   /\ rTable' = [s \in 0..(rCap - 1) |-> 0]
                   /\ rCurrent' = 0
              ELSE /\ rTable' = t
                   /\ rCurrent' = c
                   /\ rAcc' = rAcc + 1
                   /\ UNCHANGED <<rClears, rFlushed, rSince>>
    /\ rI' = rI + 1
    /\ UNCHANGED <<rViews, rCap, rPc, rV, rPrIdx>>
    /\ UNCHANGED NotRunVars

\* The inner loop's exit: i == view->size().
RunViewEnd ==
    /\ rPc = "point"
    /\ rI >= rViews[rV]
    /\ rV' = rV + 1
    /\ rPc' = "view"
    /\ UNCHANGED <<rViews, rCap, rI, rCurrent, rPrIdx, rTable, rWritten,
                   rClears, rFlushed, rAcc, rSince, rLastSlot, rLastCur>>
    /\ UNCHANGED NotRunVars

\* After the last view: `if (current) table.clear(current);`.
RunFinal ==
    /\ rPc = "view"
    /\ rV > Len(rViews)
    /\ LET ns == FinalClear(rCurrent) IN
        /\ rClears' = rClears \o ns
        /\ rFlushed' = rFlushed \o [k \in 1..Len(ns) |-> Batch(rTable, ns[k])]
        /\ rSince' = rSince \o [k \in 1..Len(ns) |-> rAcc]
        /\ rAcc' = IF ns = <<>> THEN rAcc ELSE 0
        /\ rTable' = IF ns = <<>> THEN rTable
                     ELSE [s \in 0..(rCap - 1) |-> 0]
    /\ rPc' = "done"
    /\ UNCHANGED <<rViews, rCap, rV, rI, rCurrent, rPrIdx, rWritten,
                   rLastSlot, rLastCur>>
    /\ UNCHANGED NotRunVars

RunNext ==
    \/ RunViewBegin
    \/ RunPoint
    \/ RunViewEnd
    \/ RunFinal

(***************************************************************************)
(* createInfoPipeline, extractInfoPipelineFromConfig, analyze(config)      *)
(*                                                                         *)
(* A JSON value is an array of stages, an object (of which only its        *)
(* "pipeline" member matters here) or something else (null, string,        *)
(* number).  A stage is a JSON object; the model keeps its "type" ("" when *)
(* it has none, as stage.value("type", "") reads it) and the options the   *)
(* code touches (Absent: the stage has no such key).                       *)
(***************************************************************************)
MaxStages == 3

Absent == "<absent>"
NoMember == [kind |-> "none"]

JArray(stages) == [kind |-> "array", stages |-> stages, member |-> NoMember]
JObject(member) == [kind |-> "object", stages |-> <<>>, member |-> member]
JOther == [kind |-> "other", stages |-> <<>>, member |-> NoMember]

Stage(type, override, default, out, enum) ==
    [type |-> type, override_srs |-> override, default_srs |-> default,
     out_srs |-> out, enumerate |-> enum, filename |-> Absent]

\* The stages the inputs are built from.
EmptyStage == Stage("", Absent, Absent, Absent, Absent)
InputStages ==
    { EmptyStage,
      Stage("readers.las", Absent, Absent, Absent, Absent),
      Stage("readers.las", "EPSG:1", "EPSG:2", Absent, Absent),
      Stage("filters.reprojection", Absent, Absent, Absent, Absent),
      Stage("filters.reprojection", Absent, Absent, "EPSG:9", Absent),
      Stage("filters.stats", Absent, Absent, Absent, Absent),
      Stage("filters.stats", Absent, Absent, Absent, "Intensity"),
      Stage("filters.smrf", Absent, Absent, Absent, Absent) }

InputArrays == {JArray(st) : st \in SeqsUpTo(InputStages, MaxStages)}
InputPipelines ==
    InputArrays \cup {JOther, JObject(NoMember), JObject(JOther),
                      JObject(JObject(NoMember))}
                \cup {JObject(a) : a \in InputArrays}

NoReprojection == [present |-> FALSE, in |-> "", out |-> "", hammer |-> FALSE]
Reprojection(in, out, hammer) ==
    [present |-> TRUE, in |-> in, out |-> out, hammer |-> hammer]
InputReprojections ==
    {NoReprojection} \cup
    {Reprojection(in, "EPSG:3857", h) : in \in {"", "EPSG:26915"}, h \in BOOLEAN}

\* std::find_if over the stages: the first stage of the type, 0 when none.
FindStage(stages, type) ==
    IF \E i \in 1..Len(stages) : stages[i].type = type
    THEN CHOOSE i \in 1..Len(stages) :
            /\ stages[i].type = type
            /\ \A j \in 1..(i - 1) : stages[j].type # type
    ELSE 0

\* findOrAppendStage: the pipeline afterwards and the position of the stage
\* the returned reference denotes.
FindOrAppendStage(stages, type) ==
    LET i == FindStage(stages, type) IN
    IF i # 0
    THEN [stages |-> stages, at |-> i]
    ELSE [stages |-> Append(stages, Stage(type, Absent, Absent, Absent, Absent)),
          at |-> Len(stages) + 1]

Returned(stages) == [threw |-> "", stages |-> stages]
Thrown(what) == [threw |-> what, stages |-> <<>>]

\* SetInputSrs with the two keys exchanged.
SetInputSrsSwapped(reader, reproj) ==
    IF reproj.in # ""
    THEN IF reproj.hammer
         THEN [reader EXCEPT !.default_srs = reproj.in]
         ELSE [reader EXCEPT !.override_srs = reproj.in]
    ELSE reader

\* The reader stage after the input SRS was set on it.
SetInputSrs(reader, reproj) ==
    IF reproj.in # ""
    THEN IF reproj.hammer
         THEN [reader EXCEPT !.override_srs = reproj.in]
         ELSE [reader EXCEPT !.default_srs = reproj.in]
    ELSE reader

\* The reprojection block of createInfoPipeline.
ConfigureReprojection(stages, reproj) ==
    IF reproj.present
    THEN LET s1 == [stages EXCEPT ![1] = SetInputSrs(stages[1], reproj)]
             f == FindOrAppendStage(s1, "filters.reprojection")
         IN  [f.stages EXCEPT ![f.at].out_srs = reproj.out]
    ELSE stages

\* The stats block of createInfoPipeline.
ConfigureStats(stages) ==
    LET f == FindOrAppendStage(stages, "filters.stats") IN
    IF f.stages[f.at].enumerate = Absent
    THEN [f.stages EXCEPT ![f.at].enumerate = "Classification"]
    ELSE f.stages

\* The validity check of createInfoPipeline, after an object was replaced
\* by its "pipeline" member.
IsInvalidPipeline(pipeline) ==
    pipeline.kind # "array" \/ pipeline.stages = <<>>

CreateInfoPipeline(pipeline, reproj) ==
    IF pipeline.kind = "object" /\ pipeline.member = NoMember
    THEN Thrown("out_of_range")
    ELSE LET p == IF pipeline.kind = "object" THEN pipeline.member ELSE pipeline
         IN  IF IsInvalidPipeline(p)
             THEN Thrown("Invalid pipeline")
             ELSE Returned(ConfigureStats(ConfigureReprojection(p.stages, reproj)))

\* ConfigPipeline with an empty array as the default.
ConfigPipelineEmptyDefault(member) ==
    IF member = NoMember THEN JArray(<<>>) ELSE member

\* config.value("pipeline", json::array({ json::object() }))
ConfigPipeline(member) ==
    IF member = NoMember THEN JArray(<<EmptyStage>>) ELSE member

ExtractInfoPipelineFromConfig(member, reproj) ==
    CreateInfoPipeline(ConfigPipeline(member), reproj)

CfgIdle ==
    /\ cPipeline = NoMember /\ cReproj = NoReprojection
    /\ aPc = "returned" /\ aResult = Returned(<<>>)

CfgInit ==
    /\ cPipeline \in {NoMember} \cup InputPipelines
    /\ cReproj \in InputReprojections
    /\ aPc = "extract"
    /\ aResult = Returned(<<>>)

\* analyze(config), first statement: the pipeline is extracted, or the
\* exception leaves analyze(config).
AnalyzeExtract ==
    /\ aPc = "extract"
    /\ aResult' = ExtractInfoPipelineFromConfig(cPipeline, cReproj)
    /\ aPc' = IF aResult'.threw # "" THEN "raised" ELSE "extracted"
    /\ UNCHANGED <<cPipeline, cReproj>>
    /\ UNCHANGED NotCfgVars

\* analyze(config), the rest: input, arbiter and threads are read and
\* analyze(pipeline, inputs, a, threads) runs over the sources.
AnalyzeSources ==
    /\ aPc = "extracted"
    /\ aPc' = "analyzed"
    /\ UNCHANGED <<cPipeline, cReproj, aResult>>
    /\ UNCHANGED NotCfgVars

CfgNext ==
    \/ AnalyzeExtract
    \/ AnalyzeSources

(***************************************************************************)
(* Subset: id(), of(), postfix()                                           *)
(***************************************************************************)
MaxSplits == 2
MaxKeyDepth == 1

\* `of` is a power of four.
SubsetCounts == {Pow(4, k) : k \in 0..MaxSplits}

\* Subset(bounds, id, of): the descriptor (id in [1..of], of).
SubsetCtor(id, of) == [m_id |-> id, m_of |-> of]

SubsetId(s) == s.m_id
SubsetOf(s) == s.m_of

\* postfix() built from m_of instead of m_id.
SubsetPostfixOfCount(s) == <<"-">> \o to_string(s.m_of)

\* postfix(): "-" + std::to_string(m_id)
SubsetPostfix(s) == <<"-">> \o to_string(s.m_id)

\* The name of a chunk key: "<depth>-<x>-<y>-<z>".
ChunkKeyName(d, x, y, z) ==
    to_string(d) \o <<"-">> \o to_string(x) \o <<"-">> \o to_string(y)
        \o <<"-">> \o to_string(z)
ChunkKeyNames ==
    UNION { {ChunkKeyName(d, x, y, z) :
                x \in 0..(Pow(2, d) - 1), y \in 0..(Pow(2, d) - 1),
                z \in 0..(Pow(2, d) - 1)} : d \in 0..MaxKeyDepth }

Slots == {1, 2}

SubIdle ==
    /\ sSubsets = [i \in Slots |-> SubsetCtor(1, 1)]
    /\ sPostfix = [i \in Slots |-> <<>>]

SubInit ==
    /\ \E of \in SubsetCounts :
        sSubsets \in [Slots -> {SubsetCtor(id, of) : id \in 1..of}]
    /\ sPostfix = [i \in Slots |-> <<>>]

\* A subset build asks its Subset for the postfix of its chunk names.
Postfix(i) ==
    /\ sPostfix[i] = <<>>
    /\ sPostfix' = [sPostfix EXCEPT ![i] = SubsetPostfix(sSubsets[i])]
    /\ UNCHANGED sSubsets
    /\ UNCHANGED NotSubVars

SubNext ==
    \E i \in Slots : Postfix(i)

(***************************************************************************)
(* serialize(sources, ep, threads)                                         *)
(***************************************************************************)
MaxSources == 3
MaxThreads == 2

\* The last position of character c in str, 0 when it does not occur
\* (std::string::rfind / find_last_of).
LastIndexOf(str, c) ==
    IF \E i \in 1..Len(str) : str[i] = c
    THEN CHOOSE i \in 1..Len(str) :
            str[i] = c /\ \A j \in (i + 1)..Len(str) : str[j] # c
    ELSE 0

\* arbiter::getBasename for a path without protocol or trailing slash.
GetBasename(path) == SubSeq(path, LastIndexOf(path, "/") + 1, Len(path))

\* arbiter::stripExtension: path.substr(0, path.find_last_of('.'))
StripExtension(path) ==
    LET pos == LastIndexOf(path, ".") IN
    IF pos = 0 THEN path ELSE SubSeq(path, 1, pos - 1)

GetStem(path) == StripExtension(GetBasename(path))

\* areBasenamesUnique, never finding a duplicate.
AreBasenamesUniqueUnchecked(paths) == TRUE

\* areBasenamesUnique: no stem occurs twice in the list.
AreBasenamesUnique(paths) ==
    \A i \in 1..Len(paths) : \A j \in 1..(i - 1) :
        GetStem(paths[j]) # GetStem(paths[i])

DotJson == <<".", "j", "s", "o", "n">>

\* The key serialize() puts source number i (0-based) under.
SerializeKey(paths, unique, i) ==
    (IF unique THEN GetStem(paths[i + 1]) ELSE to_string(i)) \o DotJson

\* json(source).dump(2): it tells the sources of a list apart.
SourceJson(paths, n) == [source |-> n, path |-> paths[n]]

SerializePaths ==
    { <<"a", ".", "l">>, <<"d", "/", "a", ".", "l">>, <<"a", ".", "z">>,
      <<"b", ".", "l">>, <<"0">> }

NoTask == [src |-> 0, key |-> <<>>]

\* Endpoint::put: atomic, overwrites.
EndpointPut(ep, key, content) ==
    {e \in ep : e.key # key} \cup {[key |-> key, content |-> content]}

SerIdle ==
    /\ zSources = <<>> /\ zThreads = 1 /\ zUnique = TRUE /\ zPc = "done"
    /\ zI = 0 /\ zQueue = <<>> /\ zWorker = [w \in 1..1 |-> NoTask]
    /\ zKey = <<>> /\ zIssued = <<>> /\ zCompleted = <<>> /\ zEndpoint = {}

\* serialize() up to the loop: basenamesUnique, i(0), Pool pool(threads).
SerInit ==
    /\ zSources \in SeqsUpTo(SerializePaths, MaxSources)
    /\ zThreads \in 1..MaxThreads
    /\ zUnique = AreBasenamesUnique(zSources)
    /\ zPc = "loop"
    /\ zI = 0
    /\ zQueue = <<>>
    /\ zWorker = [w \in 1..zThreads |-> NoTask]
    /\ zKey = [n \in 1..Len(zSources) |-> <<>>]
    /\ zIssued = [n \in 1..Len(zSources) |-> 0]
    /\ zCompleted = [n \in 1..Len(zSources) |-> 0]
    /\ zEndpoint = {}

\* One iteration of the loop: the stem, pool.add of the put, ++i.
SerializeAdd ==
    /\ zPc = "loop"
    /\ zI < Len(zSources)
    /\ LET key == SerializeKey(zSources, zUnique, zI) IN
        /\ zQueue' = Append(zQueue, [src |-> zI + 1, key |-> key])
        /\ zKey' = [zKey EXCEPT ![zI + 1] = key]
    /\ zI' = zI + 1
    /\ UNCHANGED <<zSources, zThreads, zUnique, zPc, zWorker, zIssued,
                   zCompleted, zEndpoint>>
    /\ UNCHANGED NotSerVars

\* The loop's exit: the caller enters pool.join().
SerializeLoopEnd ==
    /\ zPc = "loop"
    /\ zI >= Len(zSources)
    /\ zPc' = "join"
    /\ UNCHANGED <<zSources, zThreads, zUnique, zI, zQueue, zWorker, zKey,
                   zIssued, zCompleted, zEndpoint>>
    /\ UNCHANGED NotSerVars

\* A pool thread takes the next task and issues its ep.put.
WorkerIssuePut(w) ==
    /\ zWorker[w] = NoTask
    /\ zQueue # <<>>
    /\ zWorker' = [zWorker EXCEPT ![w] = Head(zQueue)]
    /\ zQueue' = Tail(zQueue)
    /\ zIssued' = [zIssued EXCEPT ![Head(zQueue).src] = @ + 1]
    /\ UNCHANGED <<zSources, zThreads, zUnique, zPc, zI, zKey, zCompleted,
                   zEndpoint>>
    /\ UNCHANGED NotSerVars

\* The put completes: the object is on the endpoint.
WorkerPutDone(w) ==
    /\ zWorker[w] # NoTask
    /\ zEndpoint' = EndpointPut(zEndpoint, zWorker[w].key,
                                SourceJson(zSources, zWorker[w].src))
    /\ zCompleted' = [zCompleted EXCEPT ![zWorker[w].src] = @ + 1]
    /\ zWorker' = [zWorker EXCEPT ![w] = NoTask]
    /\ UNCHANGED <<zSources, zThreads, zUnique, zPc, zI, zQueue, zKey,
                   zIssued>>
    /\ UNCHANGED NotSerVars

\* pool.join() returns once no task is queued or running.
PoolJoin ==
    /\ zPc = "join"
    /\ zQueue = <<>>
    /\ \A w \in 1..zThreads : zWorker[w] = NoTask
    /\ zPc' = "done"
    /\ UNCHANGED <<zSources, zThreads, zUnique, zI, zQueue, zWorker, zKey,
                   zIssued, zCompleted, zEndpoint>>
    /\ UNCHANGED NotSerVars

SerNext ==
    \/ SerializeAdd
    \/ SerializeLoopEnd
    \/ \E w \in 1..zThreads : WorkerIssuePut(w)
    \/ \E w \in 1..zThreads : WorkerPutDone(w)
    \/ PoolJoin

(***************************************************************************)
(* analyze(pipelineTemplate, inputs, a, threads), getInfo, run             *)
(*                                                                         *)
(* Whether a call into the reader library or the arbiter throws is not     *)
(* decided by this code: every such call either returns or throws, a       *)
(* std::exception ("std") or something else ("other").                     *)
(***************************************************************************)
MaxInputs == 2

Info(errors, points) == [errors |-> errors, points |-> points]
\* source::Info as default-constructed.
DefaultInfo == Info(<<>>, 0)

ExceptionKinds == {"std", "other"}

\* arbiter::getExtension: what follows the last '.', "" when there is none.
GetExtension(path) ==
    LET pos == LastIndexOf(path, ".") IN
    IF pos = 0 THEN <<>> ELSE SubSeq(path, pos + 1, Len(path))

PointCloudPath == <<"a", ".", "l">>
InfoJsonPath == <<"s", ".", "j", "s", "o", "n">>

\* What an input path holds: a point cloud (of `points` points), or a JSON
\* document with the "path" of a point cloud and its stored info.
AnalyzeInputs ==
    { [path |-> PointCloudPath, points |-> 5, stored |-> DefaultInfo],
      [path |-> InfoJsonPath, points |-> 0, stored |-> Info(<<>>, 7)],
      [path |-> InfoJsonPath, points |-> 0, stored |-> Info(<<"stored">>, 0)] }

\* The template analyze(config) hands over for a config with no "pipeline".
AnalyzeTemplate == CreateInfoPipeline(JArray(<<EmptyStage>>), NoReprojection).stages

Idle == [src |-> 0, pc |-> "idle", pipeline |-> <<>>]

\* The handlers of getInfo: the exception becomes an entry of info.errors.
GetInfoCatch(kind, info) ==
    [info EXCEPT !.errors =
        Append(@, IF kind = "std" THEN "what" ELSE "Unknown error")]

\* The handlers of the JSON task without its catch (...).
FetchTaskCatchStdOnly(kind, info) ==
    IF kind = "std"
    THEN [escaped |-> FALSE,
          info |-> [info EXCEPT !.errors = Append(@, "Failed to fetch info: what")]]
    ELSE [escaped |-> TRUE, info |-> info]

\* The handlers of the JSON task's lambda.
FetchTaskCatch(kind, info) ==
    [escaped |-> FALSE,
     info |-> [info EXCEPT !.errors =
        Append(@, IF kind = "std" THEN "Failed to fetch info: what"
                  ELSE "Failed to fetch info")]]

\* The handlers of the getInfo task's lambda.
AnalyzeTaskCatch(kind, info) ==
    [escaped |-> FALSE,
     info |-> [info EXCEPT !.errors =
        Append(@, IF kind = "std" THEN "Failed to analyze: what"
                  ELSE "Failed to analyze")]]

\* A preparation section that does not unlock at its end.
UnlockMissing(lock, w) == lock

\* lock.unlock() at the end of a preparation section.
Unlock(lock, w) == IF lock = w THEN 0 ELSE lock

\* A lock that stays locked when its scope is left by an exception.
KeepLockOnThrow(lock, w) == lock

\* The unique_lock `lock` goes out of scope when an exception unwinds the
\* block that holds it: the mutex is released if this thread holds it.
ReleaseOnThrow(lock, w) == IF lock = w THEN 0 ELSE lock

AnIdle ==
    /\ nInputs = <<>> /\ nTemplate = <<>> /\ nThreads = 1 /\ nPc = "done"
    /\ nI = 0 /\ nSources = <<>> /\ nQueue = <<>>
    /\ nWorker = [w \in 1..1 |-> Idle] /\ nLock = 0 /\ nOutcome = <<>>
    /\ nEscaped = FALSE

\* analyze() up to the loop: the source list built from the filenames,
\* i(0), Pool pool(threads).
AnInit ==
    /\ nInputs \in SeqsUpTo(AnalyzeInputs, MaxInputs)
    /\ nTemplate = AnalyzeTemplate
    /\ nThreads \in 1..MaxThreads
    /\ nPc = "loop"
    /\ nI = 0
    /\ nSources = [n \in 1..Len(nInputs) |->
                    [path |-> nInputs[n].path, info |-> DefaultInfo]]
    /\ nQueue = <<>>
    /\ nWorker = [w \in 1..nThreads |-> Idle]
    /\ nLock = 0
    /\ nOutcome = [n \in 1..Len(nInputs) |-> "none"]
    /\ nEscaped = FALSE

\* One iteration of the loop: by the extension, the JSON task or the getInfo
\* task (with the template's copy naming the file) is added to the pool.
AnalyzeAdd ==
    /\ nPc = "loop"
    /\ nI < Len(nSources)
    /\ LET n == nI + 1 IN
        IF GetExtension(nSources[n].path) = <<"j", "s", "o", "n">>
        THEN nQueue' = Append(nQueue, [src |-> n, pc |-> "fetch", pipeline |-> <<>>])
        ELSE nQueue' = Append(nQueue,
                [src |-> n, pc |-> "gi_lock",
                 pipeline |-> [nTemplate EXCEPT ![1].filename = nSources[n].path]])
    /\ nI' = nI + 1
    /\ UNCHANGED <<nInputs, nTemplate, nThreads, nPc, nSources, nWorker, nLock,
                   nOutcome, nEscaped>>
    /\ UNCHANGED NotAnVars

AnalyzeLoopEnd ==
    /\ nPc = "loop"
    /\ nI >= Len(nSources)
    /\ nPc' = "join"
    /\ UNCHANGED <<nInputs, nTemplate, nThreads, nI, nSources, nQueue, nWorker,
                   nLock, nOutcome, nEscaped>>
    /\ UNCHANGED NotAnVars

\* pool.join() returns once no task is queued or running; analyze returns.
AnalyzeJoin ==
    /\ nPc = "join"
    /\ nQueue = <<>>
    /\ \A w \in 1..nThreads : nWorker[w] = Idle
    /\ nPc' = "done"
    /\ UNCHANGED <<nInputs, nTemplate, nThreads, nI, nSources, nQueue, nWorker,
                   nLock, nOutcome, nEscaped>>
    /\ UNCHANGED NotAnVars

\* A pool thread takes the next task.  The threads are interchangeable: of
\* the idle ones, the lowest-numbered stands for whichever takes it.
PoolTake(w) ==
    /\ nWorker[w] = Idle
    /\ \A v \in 1..(w - 1) : nWorker[v] # Idle
    /\ nQueue # <<>>
    /\ nWorker' = [nWorker EXCEPT ![w] = Head(nQueue)]
    /\ nQueue' = Tail(nQueue)
    /\ UNCHANGED <<nInputs, nTemplate, nThreads, nPc, nI, nSources, nLock,
                   nOutcome, nEscaped>>
    /\ UNCHANGED NotAnVars

Unchanged_Task == UNCHANGED <<nInputs, nTemplate, nThreads, nPc, nI, nQueue>>

\* Worker w moves to pc, its task going on.
Goto(w, pc) == nWorker' = [nWorker EXCEPT ![w].pc = pc]

\* The task of worker w ends: source.info is what it is now.
Finish(w, source, outcome, escaped) ==
    /\ nSources' = [nSources EXCEPT ![nWorker[w].src] = source]
    /\ nOutcome' = [nOutcome EXCEPT ![nWorker[w].src] = outcome]
    /\ nEscaped' = (nEscaped \/ escaped)
    /\ nWorker' = [nWorker EXCEPT ![w] = Idle]

\* The JSON task: a.get, json::parse, j.at("path"), j.get<source::Info>().
\* It may throw before source.path is overwritten, or after.
FetchInfo(w) ==
    /\ nWorker[w].pc = "fetch"
    /\ LET n == nWorker[w].src
           src == nSources[n]
           \* the "path" member of the document: the point cloud it describes
           moved == [src EXCEPT !.path = PointCloudPath]
       IN  \/ Finish(w, [moved EXCEPT !.info = nInputs[n].stored], "ok", FALSE)
           \/ \E kind \in ExceptionKinds : \E late \in BOOLEAN :
                LET at == IF late THEN moved ELSE src
                    c == FetchTaskCatch(kind, at.info)
                IN  Finish(w, [at EXCEPT !.info = c.info], "failed", c.escaped)
    /\ UNCHANGED nLock
    /\ Unchanged_Task
    /\ UNCHANGED NotAnVars

\* An exception inside getInfo's try block, `points` being what info.points
\* holds by then: the lock is released by unwinding, the handler records the
\* error, getInfo returns info and the lambda assigns it to source.info.
GetInfoThrows(w, kind, points) ==
    /\ nLock' = ReleaseOnThrow(nLock, w)
    /\ Finish(w, [nSources[nWorker[w].src] EXCEPT
                    !.info = GetInfoCatch(kind, Info(<<>>, points))],
              "failed", FALSE)
    /\ Unchanged_Task

\* `source.info = getInfo(pipeline)` throws outside getInfo's own try block
\* (the copies of the pipeline and of the info): the lambda's handlers.
GetInfoCallThrows(w) ==
    /\ nWorker[w].pc = "gi_lock"
    /\ \E kind \in ExceptionKinds :
        LET src == nSources[nWorker[w].src]
            c == AnalyzeTaskCatch(kind, src.info)
        IN  Finish(w, [src EXCEPT !.info = c.info], "failed", c.escaped)
    /\ UNCHANGED nLock
    /\ Unchanged_Task
    /\ UNCHANGED NotAnVars

\* getInfo: auto lock(Executor::getLock());
GetInfoLock(w) ==
    /\ nWorker[w].pc = "gi_lock"
    /\ nLock = 0
    /\ nLock' = w
    /\ Goto(w, "gi_read")
    /\ UNCHANGED <<nSources, nOutcome, nEscaped>>
    /\ Unchanged_Task
    /\ UNCHANGED NotAnVars

\* getInfo: pm.readPipeline(iss);
GetInfoReadPipeline(w) ==
    /\ nWorker[w].pc = "gi_read"
    /\ \/ /\ Goto(w, "gi_validate")
          /\ UNCHANGED <<nLock, nSources, nOutcome, nEscaped>>
          /\ Unchanged_Task
       \/ \E kind \in ExceptionKinds : GetInfoThrows(w, kind, 0)
    /\ UNCHANGED NotAnVars

\* getInfo: pm.validateStageOptions(); lock.unlock();
GetInfoValidate(w) ==
    /\ nWorker[w].pc = "gi_validate"
    /\ \/ /\ Goto(w, "gi_check")
          /\ nLock' = Unlock(nLock, w)
          /\ UNCHANGED <<nSources, nOutcome, nEscaped>>
          /\ Unchanged_Task
       \/ \E kind \in ExceptionKinds : GetInfoThrows(w, kind, 0)
    /\ UNCHANGED NotAnVars

\* getInfo: the last stage must be filters.stats, the pipeline linear and
\* started by a reader.
GetInfoCheck(w) ==
    /\ nWorker[w].pc = "gi_check"
    /\ LET stages == nWorker[w].pipeline IN
        \/ /\ stages[Len(stages)].type = "filters.stats"
           /\ Goto(w, "run_lock")
           /\ UNCHANGED <<nLock, nSources, nOutcome, nEscaped>>
           /\ Unchanged_Task
        \/ GetInfoThrows(w, "std", 0)
    /\ UNCHANGED NotAnVars

\* run: by pm.pipelineStreamable(), runStreaming or runNonStreaming; both
\* begin with auto lock(Executor::getLock()).
RunLock(w) ==
    /\ nWorker[w].pc = "run_lock"
    /\ nLock = 0
    /\ nLock' = w
    /\ \E streamable \in BOOLEAN :
        Goto(w, IF streamable THEN "rs_prepare" ELSE "rn_prepare")
    /\ UNCHANGED <<nSources, nOutcome, nEscaped>>
    /\ Unchanged_Task
    /\ UNCHANGED NotAnVars

\* runStreaming: pm.getStage(); s->prepare(table); lock.unlock();
RunStreamingPrepare(w) ==
    /\ nWorker[w].pc = "rs_prepare"
    /\ \/ /\ Goto(w, "rs_execute")
          /\ nLock' = Unlock(nLock, w)
          /\ UNCHANGED <<nSources, nOutcome, nEscaped>>
          /\ Unchanged_Task
       \/ \E kind \in ExceptionKinds : GetInfoThrows(w, kind, 0)
    /\ UNCHANGED NotAnVars

\* runNonStreaming: pm.prepare(); lock.unlock();
RunNonStreamingPrepare(w) ==
    /\ nWorker[w].pc = "rn_prepare"
    /\ \/ /\ Goto(w, "rn_execute")
          /\ nLock' = Unlock(nLock, w)
          /\ UNCHANGED <<nSources, nOutcome, nEscaped>>
          /\ Unchanged_Task
       \/ \E kind \in ExceptionKinds : GetInfoThrows(w, kind, 0)
    /\ UNCHANGED NotAnVars

\* runStreaming: s->execute(table);
RunStreamingExecute(w) ==
    /\ nWorker[w].pc = "rs_execute"
    /\ \/ /\ Goto(w, "gi_collect")
          /\ UNCHANGED <<nLock, nSources, nOutcome, nEscaped>>
          /\ Unchanged_Task
       \/ \E kind \in ExceptionKinds : GetInfoThrows(w, kind, 0)
    /\ UNCHANGED NotAnVars

\* runNonStreaming: pm.execute(); and the views' points handed to the table.
RunNonStreamingExecute(w) ==
    /\ nWorker[w].pc = "rn_execute"
    /\ \/ /\ Goto(w, "gi_collect")
          /\ UNCHANGED <<nLock, nSources, nOutcome, nEscaped>>
          /\ Unchanged_Task
       \/ \E kind \in ExceptionKinds : GetInfoThrows(w, kind, 0)
    /\ UNCHANGED NotAnVars

\* getInfo: dimensions, metadata, scale and offset, bounds, points, srs; the
\* info is returned and assigned to source.info.  Reading the srs, the last
\* of these, may throw when info.points is already set.
GetInfoCollect(w) ==
    /\ nWorker[w].pc = "gi_collect"
    /\ LET n == nWorker[w].src IN
        \/ /\ Finish(w, [nSources[n] EXCEPT !.info = Info(<<>>, nInputs[n].points)],
                     "ok", FALSE)
           /\ UNCHANGED nLock
           /\ Unchanged_Task
        \/ \E kind \in ExceptionKinds : \E points \in {0, nInputs[n].points} :
            GetInfoThrows(w, kind, points)
    /\ UNCHANGED NotAnVars

AnNext ==
    \/ AnalyzeAdd
    \/ AnalyzeLoopEnd
    \/ AnalyzeJoin
    \/ \E w \in 1..nThreads : PoolTake(w)
    \/ \E w \in 1..nThreads : FetchInfo(w)
    \/ \E w \in 1..nThreads : GetInfoCallThrows(w)
    \/ \E w \in 1..nThreads : GetInfoLock(w)
    \/ \E w \in 1..nThreads : GetInfoReadPipeline(w)
    \/ \E w \in 1..nThreads : GetInfoValidate(w)
    \/ \E w \in 1..nThreads : GetInfoCheck(w)
    \/ \E w \in 1..nThreads : RunLock(w)
    \/ \E w \in 1..nThreads : RunStreamingPrepare(w)
    \/ \E w \in 1..nThreads : RunNonStreamingPrepare(w)
    \/ \E w \in 1..nThreads : RunStreamingExecute(w)
    \/ \E w \in 1..nThreads : RunNonStreamingExecute(w)
    \/ \E w \in 1..nThreads : GetInfoCollect(w)

(***************************************************************************)
(* Claims about analyze and the executor lock                              *)
(***************************************************************************)
IsJsonInput(n) == GetExtension(nInputs[n].path) = <<"j", "s", "o", "n">>

\* The info source n has when its own analysis returns, whatever the other
\* sources do.
InfoAlone(n) ==
    IF IsJsonInput(n) THEN nInputs[n].stored ELSE Info(<<>>, nInputs[n].points)

\* What C1 says of every source but the errors of one that did not fail.
C1_Isolation ==
    /\ Len(nSources) = Len(nInputs)
    /\ \A n \in 1..Len(nInputs) :
        /\ nSources[n].path = nInputs[n].path
            \/ (IsJsonInput(n) /\ nSources[n].path = PointCloudPath)
        /\ nOutcome[n] = "none" => nSources[n].info = DefaultInfo
        /\ nOutcome[n] = "failed" => nSources[n].info.errors # <<>>
        /\ nOutcome[n] = "ok" => nSources[n].info = InfoAlone(n)
    /\ nPc = "done" => \A n \in 1..Len(nInputs) : nOutcome[n] # "none"
    /\ ~nEscaped

\* C1 as stated: one entry per input in input order, every failing source
\* has a non-empty info.errors, every non-failing source has empty
\* info.errors and the info it would have had alone, and no exception of a
\* source escapes analyze().
C1_AsStated ==
    /\ C1_Isolation
    /\ \A n \in 1..Len(nInputs) :
        nOutcome[n] = "ok" => nSources[n].info.errors = <<>>

\* C1 amended: as stated, except that a non-failing source has empty
\* info.errors when it was analyzed by getInfo, and the errors stored in the
\* fetched document when it is a JSON source.
C1_Amended ==
    /\ C1_Isolation
    /\ \A n \in 1..Len(nInputs) :
        nOutcome[n] = "ok" =>
            nSources[n].info.errors =
                (IF IsJsonInput(n) THEN nInputs[n].stored.errors ELSE <<>>)

\* analyze() has returned two sources: the first failed, the second, a point
\* cloud, did not.
C1_Witness ==
    /\ nPc = "done" /\ Len(nSources) = 2
    /\ nOutcome = <<"failed", "ok">>
    /\ nSources[1].info.errors # <<>>
    /\ ~IsJsonInput(2) /\ nSources[2].info = Info(<<>>, 5)

PrepPcs == {"gi_read", "gi_validate", "rs_prepare", "rn_prepare"}
ExecPcs == {"rs_execute", "rn_execute"}

\* At most one thread is inside a preparation section, which it is only with
\* the executor lock; the lock is held only inside a preparation section, so
\* never while a pipeline executes and never after a preparation step threw.
C2_LockInvariant ==
    /\ Cardinality({w \in 1..nThreads : nWorker[w].pc \in PrepPcs}) <= 1
    /\ \A w \in 1..nThreads :
        /\ nWorker[w].pc \in PrepPcs => nLock = w
        /\ nWorker[w].pc \in ExecPcs => nLock # w
    /\ nLock # 0 => nWorker[nLock].pc \in PrepPcs

\* One worker executes its pipeline, the lock released, while the other,
\* holding the lock, prepares its own.
C2_Witness ==
    /\ nThreads = 2
    /\ nWorker[1].pc = "rn_execute"
    /\ nWorker[2].pc = "gi_validate" /\ nLock = 2

\* C2: the preparation phase is single-threaded, the executor lock is never
\* held while a pipeline executes, and it is released when a preparation
\* step throws, so that no worker is blocked forever: every task ends and
\* analyze() returns.
C2_ExecutorLock == []C2_LockInvariant /\ <>(nPc = "done")

(***************************************************************************)
(* Claims about createInfoPipeline and analyze(config)                     *)
(***************************************************************************)
\* The pipeline createInfoPipeline received, and the array it works on once
\* an object was replaced by its "pipeline" member.
GivenPipeline == IF cPipeline = NoMember THEN JArray(<<EmptyStage>>) ELSE cPipeline
HasWorkPipeline == ~(GivenPipeline.kind = "object" /\ GivenPipeline.member = NoMember)
WorkPipeline ==
    IF GivenPipeline.kind = "object" THEN GivenPipeline.member ELSE GivenPipeline
InStages == WorkPipeline.stages
OutStages == aResult.stages
HasReturned == aPc # "extract" /\ aResult.threw = ""

CountType(stages, type) ==
    Cardinality({i \in 1..Len(stages) : stages[i].type = type})

\* The "enumerate" the caller gave: that of the first stats stage of the
\* input, Absent when there is none.
GivenEnumerate ==
    LET i == FindStage(InStages, "filters.stats") IN
    IF i = 0 THEN Absent ELSE InStages[i].enumerate

\* C6: for every non-empty array pipeline and every optional reprojection
\* the last stage of the returned pipeline has type "filters.stats", and its
\* "enumerate" is the caller's value when one was given and
\* "Classification" otherwise.
C6_EndsWithStats ==
    HasReturned =>
        LET last == OutStages[Len(OutStages)] IN
        /\ last.type = "filters.stats"
        /\ last.enumerate =
            (IF GivenEnumerate # Absent THEN GivenEnumerate ELSE "Classification")

\* The part of C7 about a supplied reprojection.
C7_WithReprojection ==
    (HasReturned /\ cReproj.present) =>
        LET nIn == CountType(InStages, "filters.reprojection")
            nOut == CountType(OutStages, "filters.reprojection")
            first == FindStage(OutStages, "filters.reprojection")
        IN
        /\ cReproj.in = "" =>
            /\ OutStages[1].override_srs = InStages[1].override_srs
            /\ OutStages[1].default_srs = InStages[1].default_srs
        /\ (cReproj.in # "" /\ cReproj.hammer) =>
            /\ OutStages[1].override_srs = cReproj.in
            /\ OutStages[1].default_srs = InStages[1].default_srs
        /\ (cReproj.in # "" /\ ~cReproj.hammer) =>
            /\ OutStages[1].default_srs = cReproj.in
            /\ OutStages[1].override_srs = InStages[1].override_srs
        /\ nIn >= 1 => nOut = nIn
        /\ nIn = 0 => nOut = 1
        /\ first # 0
        /\ OutStages[first].out_srs = cReproj.out

\* C7 as stated: with a reprojection the input SRS goes to the reader stage
\* only if reprojection.in is non-empty, as override_srs when hammer and as
\* default_srs otherwise, and an existing filters.reprojection stage is
\* filled in or one is appended; with no reprojection the reader stage and
\* the number of reprojection stages are unchanged.
C7_ReprojectionAsStated ==
    /\ C7_WithReprojection
    /\ (HasReturned /\ ~cReproj.present) =>
        /\ OutStages[1] = InStages[1]
        /\ CountType(OutStages, "filters.reprojection")
            = CountType(InStages, "filters.reprojection")

\* C7 amended: as stated, except that with no reprojection a stage 0 that is
\* itself of type "filters.stats" and has no "enumerate" gains
\* enumerate = "Classification" (it is otherwise unchanged).
C7_ReprojectionAmended ==
    /\ C7_WithReprojection
    /\ (HasReturned /\ ~cReproj.present) =>
        /\ OutStages[1] =
            (IF InStages[1].type = "filters.stats" /\ InStages[1].enumerate = Absent
             THEN [InStages[1] EXCEPT !.enumerate = "Classification"]
             ELSE InStages[1])
        /\ CountType(OutStages, "filters.reprojection")
            = CountType(InStages, "filters.reprojection")

\* A hammering reprojection on a pipeline with no reprojection stage: the
\* reader got override_srs and one stage was appended.
C7_Witness ==
    /\ HasReturned /\ cReproj.present /\ cReproj.hammer /\ cReproj.in # ""
    /\ CountType(InStages, "filters.reprojection") = 0
    /\ Len(InStages) = 2
    /\ OutStages[1].override_srs = "EPSG:26915"
    /\ CountType(OutStages, "filters.reprojection") = 1

\* C8: createInfoPipeline throws "Invalid pipeline" and returns nothing
\* whenever the pipeline (an object replaced by its "pipeline" member) is not
\* an array or is empty; analyze(config) then raises before any source is
\* analyzed; a config with no "pipeline" member yields the default one-stage
\* pipeline with a stats filter appended.
C8_MalformedRejected ==
    aPc # "extract" =>
        /\ HasWorkPipeline =>
            ((WorkPipeline.kind # "array" \/ Len(WorkPipeline.stages) = 0)
                <=> aResult.threw = "Invalid pipeline")
        /\ aResult.threw # "" => (aPc = "raised" /\ OutStages = <<>>)
        /\ aPc = "analyzed" => aResult.threw = ""
        /\ cPipeline = NoMember =>
            /\ aResult.threw = ""
            /\ Len(OutStages) = (IF cReproj.present THEN 3 ELSE 2)
            /\ OutStages[1].type = ""
            /\ OutStages[Len(OutStages)].type = "filters.stats"
            /\ OutStages[Len(OutStages)].enumerate = "Classification"

\* An empty array was given and analyze(config) raised.
C8_Witness ==
    /\ cPipeline = JArray(<<>>) /\ aPc = "raised"
    /\ aResult.threw = "Invalid pipeline"

(***************************************************************************)
(* Claims about Subset                                                     *)
(***************************************************************************)
\* The names subset i gives the chunk keys.
PostfixedNames(i) == {k \o sPostfix[i] : k \in ChunkKeyNames}

HasNo(str, c) == \A i \in 1..Len(str) : str[i] # c

\* stem is the extension-stripped basename of path: path is dir + stem + ext
\* with dir empty or ending in its last "/", and ext empty or a "." followed
\* by no further ".".
IsStemOf(stem, path) ==
    \E d \in 0..Len(path) : \E e \in d..Len(path) :
        LET dir == SubSeq(path, 1, d)
            ext == SubSeq(path, e + 1, Len(path))
        IN  /\ stem = SubSeq(path, d + 1, e)
            /\ dir = <<>> \/ dir[Len(dir)] = "/"
            /\ HasNo(stem \o ext, "/")
            /\ \/ ext = <<>> /\ HasNo(stem, ".")
               \/ ext # <<>> /\ ext[1] = "." /\ HasNo(Tail(ext), ".")

\* The stem of a path by that description.
StemByDescription(path) ==
    CHOOSE stem \in {SubSeq(path, i, j) : i \in 1..(Len(path) + 1), j \in 0..Len(path)} :
        IsStemOf(stem, path)

DescribedStem == [path \in SerializePaths |-> StemByDescription(path)]

StemsDistinct ==
    \A i, j \in 1..Len(zSources) :
        i # j => DescribedStem[zSources[i]] # DescribedStem[zSources[j]]

\* C3: exactly one put is issued per source, no two sources are put to the
\* same key (the key is '<stem>.json' when all stems of the list are
\* distinct and '<index>.json' otherwise), and serialize() returns only
\* after every put has completed, so that the endpoint then holds every
\* source's object under its key whatever the interleaving was.
C3_OneObjectPerSource ==
    /\ \A n \in 1..Len(zSources) :
        /\ zIssued[n] <= 1 /\ zCompleted[n] <= zIssued[n]
        /\ zKey[n] # <<>> =>
            /\ Len(zKey[n]) > 5
            /\ SubSeq(zKey[n], Len(zKey[n]) - 4, Len(zKey[n])) = DotJson
            /\ LET name == SubSeq(zKey[n], 1, Len(zKey[n]) - 5) IN
                IF StemsDistinct THEN name = DescribedStem[zSources[n]]
                ELSE ParseDecimal(name) = n - 1
    /\ \A n, m \in 1..Len(zSources) :
        (n # m /\ zKey[n] # <<>> /\ zKey[m] # <<>>) => zKey[n] # zKey[m]
    /\ zPc = "done" =>
        /\ \A n \in 1..Len(zSources) : zIssued[n] = 1 /\ zCompleted[n] = 1
        /\ zEndpoint = {[key |-> zKey[n], content |-> SourceJson(zSources, n)] :
                            n \in 1..Len(zSources)}

\* serialize() has returned for three sources of which two share the stem
\* "a": the objects are under 0.json, 1.json and 2.json.
C3_Witness ==
    /\ zPc = "done" /\ Len(zSources) = 3 /\ ~zUnique /\ zThreads = 2
    /\ Cardinality(zEndpoint) = 3
    /\ zKey[3] = <<"2">> \o DotJson

(***************************************************************************)
(* Claims about Subset::Span                                               *)
(***************************************************************************)
\* C5: a.merge(b) succeeds exactly when a.end() = b.begin(); then a.begin()
\* is unchanged and a.end() becomes b.end(); otherwise it throws and leaves
\* a unchanged.  After any sequence of merges of spans that each have
\* begin <= end, the span has begin <= end and covers exactly the union of
\* the merged ranges, no position twice.
C5_MergeContiguous ==
    /\ spMerges > 0 =>
        /\ spThrew <=> (spPrevA.end # spB.begin)
        /\ spThrew => spA = spPrevA
        /\ ~spThrew => (spA.begin = spPrevA.begin /\ spA.end = spB.end)
    /\ spWell =>
        /\ spA.begin <= spA.end
        /\ SpanRange(spA) = spCovered
        /\ ~spOverlap

\* Three successful merges have grown [0,0) to [0,3) over [0,1), [1,2), [2,3).
C5_Witness ==
    /\ spMerges = 3 /\ ~spThrew /\ spWell
    /\ spPrevA = Span(0, 2) /\ spB = Span(2, 3) /\ spA = Span(0, 3)
    /\ spCovered = {0, 1, 2}

(***************************************************************************)
(* Claims about runNonStreaming                                            *)
(***************************************************************************)
\* C9: every table.clear(n) has 1 <= n <= capacity; `current` is in
\* [0, capacity) whenever a point is about to be written; clear(capacity) is
\* issued exactly when capacity points have accumulated since the previous
\* clear; and at the end the n's sum to the number of points of all views.
C9_BoundedBatches ==
    /\ Len(rSince) = Len(rClears)
    /\ \A k \in 1..Len(rClears) :
        /\ 1 <= rClears[k] /\ rClears[k] <= rCap
        /\ rClears[k] = rSince[k]
        /\ (k < Len(rClears) \/ rPc # "done") => rClears[k] = rCap
    /\ rCurrent \in 0..(rCap - 1)
    /\ rAcc = rCurrent \/ (rPc = "done" /\ rAcc = 0)
    /\ rAcc < rCap
    /\ SumSeq(rClears) + rAcc = rWritten
    /\ rPc = "done" =>
        /\ rWritten = SumSeq(rViews)
        /\ SumSeq(rClears) = SumSeq(rViews)

\* Two views of 2 and 3 points through a table of capacity 3: a full batch
\* that spans the view boundary, then the remainder.
C9_Witness ==
    /\ rPc = "done" /\ rViews = <<2, 3>> /\ rCap = 3 /\ rClears = <<3, 2>>

\* C10: each point is written to the slot whose index is the value of
\* `current` at the write, so the n slots flushed by table.clear(n) hold the
\* n most recent points in order.
C10_SlotIsCurrent ==
    /\ rLastSlot = rLastCur
    /\ \A k \in 1..Len(rFlushed) :
        LET before == SumSeq(SubSeq(rClears, 1, k - 1)) IN
        rFlushed[k] = [j \in 1..rClears[k] |-> before + j]

(***************************************************************************)
(* Specifications                                                          *)
(***************************************************************************)
InitAnalyze ==
    AnInit /\ SpanIdle /\ RunIdle /\ CfgIdle /\ SubIdle /\ SerIdle
InitPipeline ==
    CfgInit /\ SpanIdle /\ RunIdle /\ SubIdle /\ SerIdle /\ AnIdle
InitSerialize ==
    SerInit /\ SpanIdle /\ RunIdle /\ CfgIdle /\ SubIdle /\ AnIdle
InitSubset ==
    SubInit /\ SpanIdle /\ RunIdle /\ CfgIdle /\ SerIdle /\ AnIdle
InitSpan ==
    SpanInit /\ RunIdle /\ CfgIdle /\ SubIdle /\ SerIdle /\ AnIdle
InitRun ==
    RunInit /\ SpanIdle /\ CfgIdle /\ SubIdle /\ SerIdle /\ AnIdle

Spec == InitAnalyze /\ [][AnNext]_vars
\* Pool threads are OS threads: a thread that can take a step takes one.
FairSpec == Spec /\ WF_vars(AnNext)
SpecPipeline == InitPipeline /\ [][CfgNext]_vars
SpecSerialize == InitSerialize /\ [][SerNext]_vars
SpecSubset == InitSubset /\ [][SubNext]_vars
SpecSpan == InitSpan /\ [][SpanNext]_vars
SpecRun == InitRun /\ [][RunNext]_vars

====
